---- MODULE Spec2Model ----
(***************************************************************************)
(* A model of github.com/barbashov/iso639-3:                               *)
(*   - the lookup library (iso6393.go): the three lookup tables and the    *)
(*     functions FromPart3Code, FromPart2Code, FromPart1Code, FromAnyCode  *)
(*     and FromName;                                                       *)
(*   - the generator (cmd/generator.go): main, getInput, outputLookup and  *)
(*     outputStruct.                                                       *)
(* Strings of the library are TLA+ strings.  Field values of the generator *)
(* are sequences of one-character strings, so that the text outputStruct   *)
(* writes can be read back character by character.                         *)
(***************************************************************************)
EXTENDS Integers, Sequences, FiniteSets, TLC

VARIABLES
    \* ---- the library (iso6393.go, lang-db.go)
    LanguagesPart3,   \* map[string]Language, keys are ISO 639-3 codes
    LanguagesPart2,   \* map[string]Language, keys are ISO 639-2 codes
    LanguagesPart1,   \* map[string]Language, keys are ISO 639-1 codes
    call,             \* the last operation of the caller and its argument
    ret,              \* the *Language the last lookup returned
    local,            \* the lookup's variable l, which &l keeps alive
    \* ---- one call of outputStruct and the reading back of what it wrote
    structKey,        \* outputStruct's argument key
    structRecord,     \* outputStruct's argument record
    structText,       \* what outputStruct wrote to w
    structRead,       \* the text read back as an element of a map literal
    epc,              \* "input", "written" or "reread"
    \* ---- one run of the generator (cmd/generator.go, main)
    content,          \* the rows the input location holds or serves
    uri,              \* flag -i: "path" or "url" (a URL with a scheme)
    pc,               \* where main is: "start", "loaded", "parsed", "opened",
                      \* or how it ended: "done", "fatal", "panic"
    err,              \* what log.Fatalf reported, "" if nothing
    resp,             \* how the HTTP GET ended, "" if none was made
    gets,             \* the number of HTTP GETs made
    rd,               \* the io.Reader getInput returned: the rows it reads
    langInput,        \* main's langInput after the header is dropped
    buf,              \* outputLookup's bytes.Buffer, as a sequence of pieces
    sink,             \* the output: where it goes and what has reached it
    writes            \* the number of calls of w.Write

libVars == <<LanguagesPart3, LanguagesPart2, LanguagesPart1, call, ret, local>>

emitVars == <<structKey, structRecord, structText, structRead, epc>>

genVars == <<content, uri, pc, err, resp, gets, rd, langInput, buf, sink, writes>>

vars == <<libVars, emitVars, genVars>>

\* The parts of the state a specification does not use stay as they are here.
LibIdle ==
    /\ LanguagesPart3 = << >>
    /\ LanguagesPart2 = << >>
    /\ LanguagesPart1 = << >>
    /\ call = [op |-> "init", arg |-> ""]
    /\ ret = [tbl |-> "nil", key |-> ""]
    /\ local = << >>

EmitIdle ==
    /\ structKey = << >>
    /\ structRecord = << >>
    /\ structText = << >>
    /\ structRead = << >>
    /\ epc = "idle"

GenIdle ==
    /\ content = << >>
    /\ uri = ""
    /\ pc = "idle"
    /\ err = ""
    /\ resp = ""
    /\ gets = 0
    /\ rd = << >>
    /\ langInput = << >>
    /\ buf = << >>
    /\ sink = << >>
    /\ writes = 0

(***************************************************************************)
(* The library: iso6393.go                                                 *)
(***************************************************************************)

\* Total number of entries the three tables hold together in an initial state.
MaxEntries == 2

\* type Language struct
Language(p3, p2b, p2t, p1, name) ==
    [Part3 |-> p3, Part2B |-> p2b, Part2T |-> p2t, Part1 |-> p1,
     Scope |-> "I", LanguageType |-> "L", Name |-> name, Comment |-> ""]

\* The zero value of Language: what l holds after a failed map read.
ZeroLanguage ==
    [Part3 |-> "", Part2B |-> "", Part2T |-> "", Part1 |-> "",
     Scope |-> "", LanguageType |-> "", Name |-> "", Comment |-> ""]

\* The records the tables are filled from.  Two of them share a Name.
Languages ==
    { Language("rus", "rus", "rus", "ru", "Russian"),
      Language("deu", "ger", "deu", "de", "German"),
      Language("gsw", "gsw", "gsw", "", "German") }

\* The keys a table may hold: of length 2, 3 and 4.
TableKeys == {"ru", "rus", "russ"}

\* The codes a caller asks for: of length 0, 1, 2, 3 (two of them) and 4.
Codes == {"", "r", "ru", "rus", "ger", "russ"}

\* The names a caller asks for; "german" differs from "German" in case only.
Names == {"Russian", "German", "german", "Elvish"}

\* Every map from some of the keys to records.
Tables == UNION { [D -> Languages] : D \in SUBSET TableKeys }

\* A *Language: nil, the address of the lookup's variable l, or (never in the
\* code as written) the address of a table's entry.
Nil == [tbl |-> "nil", key |-> ""]

\* &l where l is the table entry itself: the returned pointer aliases the table.
AddrOfEntry(tbl, key) == [tbl |-> tbl, key |-> key]

\* &l: l is the copy made by `l, ok := table[code]` or by `for _, l := range`.
AddrOf(tbl, key) == [tbl |-> "local", key |-> ""]

\* What a pointer points to.
Deref(p) ==
    CASE p.tbl = "local" -> local
      [] p.tbl = "Part3" -> LanguagesPart3[p.key]
      [] p.tbl = "Part2" -> LanguagesPart2[p.key]
      [] p.tbl = "Part1" -> LanguagesPart1[p.key]

\* return nil
NotFound == [ptr |-> Nil, l |-> ZeroLanguage]

\* FromPart3Code with the miss answered by a pointer to the zero record.
FromPart3CodeNoNil(code) ==
    IF code \in DOMAIN LanguagesPart3
    THEN [ptr |-> AddrOf("Part3", code), l |-> LanguagesPart3[code]]
    ELSE [ptr |-> AddrOf("Part3", code), l |-> ZeroLanguage]

\* func FromPart3Code(code string) *Language
FromPart3Code(code) ==
    IF code \in DOMAIN LanguagesPart3
    THEN [ptr |-> AddrOf("Part3", code), l |-> LanguagesPart3[code]]
    ELSE NotFound

\* func FromPart2Code(code string) *Language
FromPart2Code(code) ==
    IF code \in DOMAIN LanguagesPart2
    THEN [ptr |-> AddrOf("Part2", code), l |-> LanguagesPart2[code]]
    ELSE NotFound

\* func FromPart1Code(code string) *Language
FromPart1Code(code) ==
    IF code \in DOMAIN LanguagesPart1
    THEN [ptr |-> AddrOf("Part1", code), l |-> LanguagesPart1[code]]
    ELSE NotFound

\* FromAnyCode asking the Part 2 table first.
FromAnyCodePart2First(code) ==
    IF Len(code) = 3
    THEN LET r == FromPart2Code(code)
         IN  IF r.ptr = Nil THEN FromPart3Code(code) ELSE r
    ELSE IF Len(code) = 2 THEN FromPart1Code(code) ELSE NotFound

\* func FromAnyCode(code string) *Language.  len(code) counts bytes; the codes
\* here are ASCII, one byte a character.
FromAnyCode(code) ==
    LET codeLen == Len(code)
    IN  IF codeLen = 3
        THEN LET r == FromPart3Code(code)
             IN  IF r.ptr = Nil THEN FromPart2Code(code) ELSE r
        ELSE IF codeLen = 2 THEN FromPart1Code(code) ELSE NotFound

\* FromName comparing names without regard to case ("german" finds "German").
FromNameFold(name) ==
    LET fold(n) == IF n = "german" THEN "German" ELSE n
        hits == { k \in DOMAIN LanguagesPart3 :
                    fold(LanguagesPart3[k].Name) = fold(name) }
    IN  IF hits = {} THEN {NotFound}
        ELSE { [ptr |-> AddrOf("Part3", k), l |-> LanguagesPart3[k]] : k \in hits }

\* func FromName(name string) *Language.  The loop ranges over a map, whose
\* iteration order Go leaves unspecified: the first entry with the name may
\* be any entry with the name.  The operator is the set of possible results.
FromName(name) ==
    LET hits == { k \in DOMAIN LanguagesPart3 : LanguagesPart3[k].Name = name }
    IN  IF hits = {} THEN {NotFound}
        ELSE { [ptr |-> AddrOf("Part3", k), l |-> LanguagesPart3[k]] : k \in hits }

\* The caller receives the result r of operation op on argument arg.
Return(op, arg, r) ==
    /\ call' = [op |-> op, arg |-> arg]
    /\ ret' = r.ptr
    /\ local' = r.l
    /\ UNCHANGED <<LanguagesPart3, LanguagesPart2, LanguagesPart1>>
    /\ UNCHANGED <<emitVars, genVars>>

CallFromPart3Code == \E code \in Codes : Return("FromPart3Code", code, FromPart3Code(code))

CallFromPart2Code == \E code \in Codes : Return("FromPart2Code", code, FromPart2Code(code))

CallFromPart1Code == \E code \in Codes : Return("FromPart1Code", code, FromPart1Code(code))

CallFromAnyCode == \E code \in Codes : Return("FromAnyCode", code, FromAnyCode(code))

CallFromName == \E name \in Names : \E r \in FromName(name) : Return("FromName", name, r)

\* The caller assigns to a field of the record the last lookup returned:
\* a write through the pointer, to whatever it points to.
Modify ==
    /\ ret # Nil
    /\ UNCHANGED <<emitVars, genVars>>
    /\ \E n \in {"Changed", "Russian"} :
        /\ call' = [op |-> "Modify", arg |-> n]
        /\ ret' = ret
        /\ CASE ret.tbl = "local" ->
                  /\ local' = [local EXCEPT !.Name = n]
                  /\ UNCHANGED <<LanguagesPart3, LanguagesPart2, LanguagesPart1>>
             [] ret.tbl = "Part3" ->
                  /\ LanguagesPart3' = [LanguagesPart3 EXCEPT ![ret.key].Name = n]
                  /\ UNCHANGED <<LanguagesPart2, LanguagesPart1, local>>
             [] ret.tbl = "Part2" ->
                  /\ LanguagesPart2' = [LanguagesPart2 EXCEPT ![ret.key].Name = n]
                  /\ UNCHANGED <<LanguagesPart3, LanguagesPart1, local>>
             [] ret.tbl = "Part1" ->
                  /\ LanguagesPart1' = [LanguagesPart1 EXCEPT ![ret.key].Name = n]
                  /\ UNCHANGED <<LanguagesPart3, LanguagesPart2, local>>

\* The package after initialisation: the tables hold what lang-db.go gives
\* them (here: any contents within the bound), and nothing has been called.
InitLookup ==
    /\ LanguagesPart3 \in Tables
    /\ LanguagesPart2 \in Tables
    /\ LanguagesPart1 \in Tables
    /\ Cardinality(DOMAIN LanguagesPart3) + Cardinality(DOMAIN LanguagesPart2)
         + Cardinality(DOMAIN LanguagesPart1) <= MaxEntries
    /\ call = [op |-> "init", arg |-> ""]
    /\ ret = Nil
    /\ local = ZeroLanguage
    /\ EmitIdle
    /\ GenIdle

NextLookup ==
    \/ CallFromPart3Code
    \/ CallFromPart2Code
    \/ CallFromPart1Code
    \/ CallFromAnyCode
    \/ CallFromName
    \/ Modify

SpecLookup == InitLookup /\ [][NextLookup]_vars

(***************************************************************************)
(* The generator's emitter: outputStruct of cmd/generator.go               *)
(*                                                                         *)
(* A text is a sequence of one-character strings; the only elements longer *)
(* than a character are the field names, which outputStruct writes from    *)
(* languageStructFields and which no field value contains.                 *)
(***************************************************************************)

\* The longest Scope and Name value of the emitter's inputs.
MaxValLen == 2

\* The characters of those values: a letter, the double quote, the backslash
\* and the single quote.
ValueChars == {"n", "\"", "\\", "'"}

\* Every value of at most n characters.
Values(n) == UNION { [1..k -> ValueChars] : k \in 0..n }

\* Some plain values.
empty == << >>
rus == <<"r", "u", "s">>
ru == <<"r", "u">>
deu == <<"d", "e", "u">>
ger == <<"g", "e", "r">>
de == <<"d", "e">>
aaa == <<"a", "a", "a">>
German == <<"G", "e", "r", "m", "a", "n">>

\* var languageStructFields: the name and the kind of each of the 8 fields.
languageStructFields ==
    << [name |-> "Part3", fieldType |-> "String"],
       [name |-> "Part2B", fieldType |-> "String"],
       [name |-> "Part2T", fieldType |-> "String"],
       [name |-> "Part1", fieldType |-> "String"],
       [name |-> "Scope", fieldType |-> "Uint8"],
       [name |-> "LanguageType", fieldType |-> "Uint8"],
       [name |-> "Name", fieldType |-> "String"],
       [name |-> "Comment", fieldType |-> "String"] >>

\* The quote outputStruct puts around a value of the field: "%s" for a
\* reflect.String field, '%s' for a reflect.Uint8 field.
QuoteOf(field) == IF field.fieldType = "String" THEN "\"" ELSE "'"

\* The value as fmt.Fprintf's %s writes it: unchanged.
Verbatim(value, q) == value

\* The loop of outputStruct over record[i..], comma telling whether a field
\* has been written before: empty values are skipped, the others are written
\* as  name: "value"  or  name: 'value'  with ", " between them.
RECURSIVE StructFields(_, _, _)
StructFields(record, i, comma) ==
    IF i > Len(record) THEN << >>
    ELSE IF record[i] = << >> THEN StructFields(record, i + 1, comma)
    ELSE LET field == languageStructFields[i]
             q == QuoteOf(field)
         IN  (IF comma THEN <<",", " ">> ELSE << >>)
             \o <<field.name, ":", " ", q>> \o Verbatim(record[i], q) \o <<q>>
             \o StructFields(record, i + 1, TRUE)

\* func outputStruct(w io.Writer, key string, record []string) error.
\* fatal: log.Fatalf on a record that has not 8 fields.  Its writes go to a
\* bytes.Buffer and every field kind is String or Uint8, so the error it
\* returns is always nil.
outputStruct(key, record) ==
    IF Len(record) # Len(languageStructFields)
    THEN [fatal |-> TRUE, text |-> << >>]
    ELSE [fatal |-> FALSE,
          text |-> <<"\"">> \o key \o <<"\"", ":", " ", "{">>
                   \o StructFields(record, 1, FALSE)
                   \o <<"}", ",", "\n">>]

(***************************************************************************)
(* Reading the emitted text as Go source, which format.Source does in      *)
(* outputLookup and the compiler does for lang-db.go.                      *)
(***************************************************************************)

Bad == [ok |-> FALSE, val |-> << >>, next |-> 0]

\* The rest of a string (q is the double quote) or rune (q is the single
\* quote) literal from s[i] on, acc being its value so far.  A backslash
\* escapes itself, the literal's own quote and n (a line feed); before any
\* other character of ValueChars it is an error, as is a line end or the end
\* of the text inside the literal.
RECURSIVE ReadQuoted(_, _, _, _)
ReadQuoted(s, i, q, acc) ==
    IF i > Len(s) THEN Bad
    ELSE IF s[i] = q THEN [ok |-> TRUE, val |-> acc, next |-> i + 1]
    ELSE IF s[i] = "\n" THEN Bad
    ELSE IF s[i] = "\\"
         THEN IF i + 1 > Len(s) THEN Bad
              ELSE IF s[i + 1] \in {"\\", q}
                   THEN ReadQuoted(s, i + 2, q, Append(acc, s[i + 1]))
              ELSE IF s[i + 1] = "n"
                   THEN ReadQuoted(s, i + 2, q, Append(acc, "\n"))
              ELSE Bad
    ELSE ReadQuoted(s, i + 1, q, Append(acc, s[i]))

\* A literal of the field's kind at s[i]: a string literal for a string
\* field, a rune literal, of exactly one character, for Scope and
\* LanguageType (type LanguageScope rune, type LanguageType rune).
ReadValue(s, i, field) ==
    IF i > Len(s) \/ s[i] # QuoteOf(field) THEN Bad
    ELSE LET r == ReadQuoted(s, i + 1, QuoteOf(field), << >>)
         IN  IF r.ok /\ field.fieldType = "Uint8" /\ Len(r.val) # 1 THEN Bad ELSE r

\* Whether s holds the characters of t at position i.
At(s, i, t) ==
    /\ i + Len(t) - 1 <= Len(s)
    /\ \A j \in 1..Len(t) : s[i + j - 1] = t[j]

\* The index of the field called name, or 0.
FieldIndex(name) ==
    IF \E i \in 1..Len(languageStructFields) : languageStructFields[i].name = name
    THEN CHOOSE i \in 1..Len(languageStructFields) : languageStructFields[i].name = name
    ELSE 0

\* The fields  name: value, name: value  from s[i] up to the closing brace,
\* rec being the record read so far.  A field the text leaves out keeps its
\* zero value, the empty string.
RECURSIVE ReadFields(_, _, _)
ReadFields(s, i, rec) ==
    IF i > Len(s) THEN [ok |-> FALSE, record |-> rec, next |-> 0]
    ELSE IF s[i] = "}" THEN [ok |-> TRUE, record |-> rec, next |-> i + 1]
    ELSE LET f == FieldIndex(s[i])
         IN  IF f = 0 \/ ~At(s, i + 1, <<":", " ">>)
             THEN [ok |-> FALSE, record |-> rec, next |-> 0]
             ELSE LET v == ReadValue(s, i + 3, languageStructFields[f])
                  IN  IF ~v.ok THEN [ok |-> FALSE, record |-> rec, next |-> 0]
                      ELSE IF At(s, v.next, <<",", " ">>)
                           THEN ReadFields(s, v.next + 2, [rec EXCEPT ![f] = v.val])
                      ELSE IF At(s, v.next, <<"}">>)
                           THEN ReadFields(s, v.next, [rec EXCEPT ![f] = v.val])
                      ELSE [ok |-> FALSE, record |-> rec, next |-> 0]

\* The zero Language: every field empty.
ZeroRecord == [i \in 1..Len(languageStructFields) |-> << >>]

\* One element  "key": {fields},  of a map[string]Language literal, read
\* back: whether it is Go syntax, and the key and the record it stands for.
ReadEntry(s) ==
    LET k == ReadValue(s, 1, languageStructFields[1])
        unread == [ok |-> FALSE, key |-> << >>, record |-> ZeroRecord]
    IN  IF ~k.ok \/ ~At(s, k.next, <<":", " ", "{">>) THEN unread
        ELSE LET r == ReadFields(s, k.next + 3, ZeroRecord)
             IN  IF r.ok /\ At(s, r.next, <<",", "\n">>) /\ r.next + 1 = Len(s)
                 THEN [ok |-> TRUE, key |-> k.val, record |-> r.record]
                 ELSE unread

(***************************************************************************)
(* One record through outputStruct and back                                *)
(***************************************************************************)

\* The records given to outputStruct: rows of 8 fields whose Scope and Name
\* are any value within the bound and whose Part1 is empty or not, and one
\* row of 7 fields.
EmitRecords ==
    { <<rus, empty, empty, p1, scope, <<"L">>, name, empty>> :
        p1 \in {empty, ru}, scope \in Values(MaxValLen), name \in Values(MaxValLen) }
    \cup { <<rus, empty, empty, ru, <<"I">>, <<"L">>, German>> }

\* outputLookup's call outputStruct(&buf, key, record) in the Part 3 loop.
WriteStruct ==
    /\ epc = "input"
    /\ LET o == outputStruct(structKey, structRecord)
       IN  /\ structText' = o.text
           /\ epc' = IF o.fatal THEN "fatal" ELSE "written"
    /\ UNCHANGED <<structKey, structRecord, structRead, libVars, genVars>>

\* The written element is read as Go source.
ReadBack ==
    /\ epc = "written"
    /\ structRead' = ReadEntry(structText)
    /\ epc' = "reread"
    /\ UNCHANGED <<structKey, structRecord, structText, libVars, genVars>>

InitEmit ==
    /\ structRecord \in EmitRecords
    /\ structKey = structRecord[1]
    /\ structText = << >>
    /\ structRead = << >>
    /\ epc = "input"
    /\ LibIdle
    /\ GenIdle

NextEmit == WriteStruct \/ ReadBack

SpecEmit == InitEmit /\ [][NextEmit]_vars

(***************************************************************************)
(* The generator: main, getInput and outputLookup of cmd/generator.go      *)
(***************************************************************************)

\* The most data rows of an input.
MaxRows == 2

\* The most pieces of the module that reach the output when w.Write fails.
MaxShortWrite == 1

\* A row of the input: PrimaryCode, SecondaryCodeA (Part2B), SecondaryCodeB
\* (Part2T), ShortCode (Part1), Scope, Kind, Name, Comment.
Row(p3, p2b, p2t, p1, name) == <<p3, p2b, p2t, p1, <<"I">>, <<"L">>, name, empty>>

\* The data rows of the inputs: every combination of an empty or non-empty
\* Part2B, an empty Part2T or one equal to or different from Part2B, and an
\* empty or non-empty Part1; a row with no PrimaryCode; a row whose Name holds
\* a double quote; a row of 7 fields and a row of 9.
DataRows ==
    { Row(aaa, p2b, p2t, p1, German) :
        p2b \in {empty, ger}, p2t \in {empty, ger, deu}, p1 \in {empty, de} }
    \cup { Row(empty, empty, empty, empty, German),
           Row(aaa, empty, empty, empty, <<"G", "\"">>),
           <<aaa, ger, deu, de, <<"I">>, <<"L">>, German>>,
           <<aaa, ger, deu, de, <<"I">>, <<"L">>, German, empty, empty>> }

\* The header rows: of 8 fields and of 7.
Headers ==
    { <<<<"I","d">>, empty, empty, empty, empty, empty, empty, empty>>,
      <<<<"I","d">>, empty, empty, empty, empty, empty, empty>> }

\* What an input location can hold: nothing at all, or a header row and up
\* to MaxRows data rows.
Inputs ==
    { << >> } \cup
    { <<h>> \o rows : h \in Headers,
                      rows \in UNION { [1..n -> DataRows] : n \in 0..MaxRows } }

\* ReadAll that drops the rows whose field count is not the first row's.
ReadAllSkipping(rows) ==
    [err |-> FALSE,
     records |-> SelectSeq(rows, LAMBDA r : Len(r) = Len(rows[1]))]

\* tsvReader.ReadAll() of encoding/csv with FieldsPerRecord left 0: the first
\* record sets the field count, and a record with another count is an error
\* (ErrFieldCount).  rows are the records the reader's input decodes to.
ReadAll(rows) ==
    IF \E i \in 1..Len(rows) : Len(rows[i]) # Len(rows[1])
    THEN [err |-> TRUE, records |-> << >>]
    ELSE [err |-> FALSE, records |-> rows]

\* A piece of the buffer that is one of the generator's constant texts:
\* sourceFilePrefix, part3Prefix, part2Prefix, part1Prefix or lookupSuffix.
Fixed(name) ==
    [fatal |-> FALSE,
     chunks |-> << [table |-> "", key |-> << >>, record |-> << >>, src |-> 0,
                    text |-> <<name>>] >>]

\* The piece outputStruct(&buf, k, rec) adds to the buffer for row number i
\* in the loop of the table, or its log.Fatalf.
Struct(table, k, rec, i) ==
    LET o == outputStruct(k, rec)
    IN  IF o.fatal THEN [fatal |-> TRUE, chunks |-> << >>]
        ELSE [fatal |-> FALSE,
              chunks |-> << [table |-> table, key |-> k, record |-> rec, src |-> i,
                             text |-> o.text] >>]

\* Nothing written (continue).
Skip == [fatal |-> FALSE, chunks |-> << >>]

\* First a, then b unless a ended the process.
Then(a, b) ==
    IF a.fatal THEN a
    ELSE [fatal |-> b.fatal, chunks |-> a.chunks \o b.chunks]

\* The Part 3 loop's body leaving out a record with an empty key.
Part3BodySkipEmpty(rec, i) ==
    IF rec[1] = empty THEN Skip ELSE Struct("Part3", rec[1], rec, i)

\* The body of the Part 3 loop: key := record[0]
Part3Body(rec, i) == Struct("Part3", rec[1], rec, i)

\* The Part 2 loop's body writing the record under both keys always.
Part2BodyBoth(rec, i) ==
    LET key2b == rec[2]
        key2t == rec[3]
    IN  IF key2b = empty THEN Skip
        ELSE Then(Struct("Part2", key2b, rec, i), Struct("Part2", key2t, rec, i))

\* The body of the Part 2 loop: key2b := record[1]; key2t := record[2]
Part2Body(rec, i) ==
    LET key2b == rec[2]
        key2t == rec[3]
    IN  IF key2b = empty THEN Skip
        ELSE Then(Struct("Part2", key2b, rec, i),
                  IF key2b # key2t THEN Struct("Part2", key2t, rec, i) ELSE Skip)

\* The body of the Part 1 loop: key := record[3]
Part1Body(rec, i) ==
    IF rec[4] = empty THEN Skip ELSE Struct("Part1", rec[4], rec, i)

Body(table, rec, i) ==
    CASE table = "Part3" -> Part3Body(rec, i)
      [] table = "Part2" -> Part2Body(rec, i)
      [] table = "Part1" -> Part1Body(rec, i)

\* for _, record := range records, from record number i on.
RECURSIVE Loop(_, _, _)
Loop(table, records, i) ==
    IF i > Len(records) THEN Skip
    ELSE Then(Body(table, records[i], i), Loop(table, records, i + 1))

\* outputLookup up to format.Source: what it writes to buf, or its
\* log.Fatalf on the way.  The writes to buf cannot fail.
FillBuffer(records) ==
    Then(Fixed("sourceFilePrefix"),
    Then(Fixed("part3Prefix"),
    Then(Loop("Part3", records, 1),
    Then(Fixed("lookupSuffix"),
    Then(Fixed("part2Prefix"),
    Then(Loop("Part2", records, 1),
    Then(Fixed("lookupSuffix"),
    Then(Fixed("part1Prefix"),
    Then(Loop("Part1", records, 1),
         Fixed("lookupSuffix"))))))))))

\* format.Source(buf.Bytes()) returns an error when the buffer is not Go
\* source: when one of its elements does not read as one.  It changes the
\* layout of the text only, which the pieces do not record.
FormatFails(chunks) ==
    \E i \in 1..Len(chunks) : chunks[i].table # "" /\ ~ReadEntry(chunks[i].text).ok

\* What can have reached the output when w.Write(outBytes) returns an error:
\* io.Writer writes n < len(p) bytes in that case, and outputLookup drops n.
ShortWrites(outBytes) ==
    { SubSeq(outBytes, 1, n) :
        n \in 0..(IF Len(outBytes) - 1 < MaxShortWrite
                  THEN Len(outBytes) - 1 ELSE MaxShortWrite) }

\* The process ends in log.Fatalf.
Fatal(why) == pc' = "fatal" /\ err' = why

\* rd := getInput(*inputFile).  A location that url.Parse gives no scheme is
\* opened as a file.  A URL is fetched with one httpClient.Get, which returns
\* an error when the request fails or times out and a response otherwise,
\* whatever its status; the response's body is then read whole.
GetInput ==
    /\ pc = "start"
    /\ \E u \in {"path", "url"} :
        /\ uri' = u
        /\ IF u = "path"
           THEN /\ UNCHANGED <<resp, gets>>
                /\ \/ rd' = content /\ pc' = "loaded" /\ err' = err
                   \/ Fatal("open") /\ rd' = rd
           ELSE /\ gets' = gets + 1
                /\ \E outcome \in {"neterr", "timeout", "200", "404", "500"} :
                    /\ resp' = outcome
                    /\ IF outcome \in {"neterr", "timeout"}
                       THEN Fatal("get") /\ rd' = rd
                       ELSE \/ rd' = content /\ pc' = "loaded" /\ err' = err
                            \/ Fatal("body") /\ rd' = rd
    /\ UNCHANGED <<content, langInput, buf, sink, writes, libVars, emitVars>>

\* langInput, err := tsvReader.ReadAll(); langInput = langInput[1:]
\* The slice expression panics when ReadAll returned no record at all.
ParseInput ==
    /\ pc = "loaded"
    /\ LET r == ReadAll(rd)
       IN  IF r.err THEN Fatal("csv") /\ langInput' = langInput
           ELSE IF Len(r.records) = 0
                THEN pc' = "panic" /\ err' = err /\ langInput' = langInput
           ELSE pc' = "parsed" /\ err' = err /\ langInput' = Tail(r.records)
    /\ UNCHANGED <<content, uri, resp, gets, rd, buf, sink, writes, libVars, emitVars>>

\* wr := os.Stdout, or os.Create(*outfile) when flag -o is given, which
\* leaves the file empty, or fails.
OpenOutput ==
    /\ pc = "parsed"
    /\ \/ \E dest \in {"stdout", "file"} :
            /\ sink' = [dest |-> dest, data |-> << >>]
            /\ pc' = "opened"
            /\ err' = err
       \/ Fatal("create") /\ sink' = sink
    /\ UNCHANGED <<content, uri, resp, gets, rd, langInput, buf, writes, libVars, emitVars>>

\* outputLookup(wr, langInput): the buffer is filled, formatted and written
\* to w in one call of Write.
OutputLookup ==
    /\ pc = "opened"
    /\ LET b == FillBuffer(langInput)
       IN  /\ buf' = b.chunks
           /\ IF b.fatal
              THEN Fatal("struct") /\ UNCHANGED <<sink, writes>>
              ELSE IF FormatFails(b.chunks)
              THEN Fatal("format") /\ UNCHANGED <<sink, writes>>
              ELSE /\ writes' = writes + 1
                   /\ \/ /\ sink' = [sink EXCEPT !.data = @ \o b.chunks]
                         /\ pc' = "done"
                         /\ err' = err
                      \/ /\ \E short \in ShortWrites(b.chunks) :
                               sink' = [sink EXCEPT !.data = @ \o short]
                         /\ Fatal("write")
    /\ UNCHANGED <<content, uri, resp, gets, rd, langInput, libVars, emitVars>>

\* The generator is started on an input location holding any of the inputs.
Init ==
    /\ content \in Inputs
    /\ uri = ""
    /\ pc = "start"
    /\ err = ""
    /\ resp = ""
    /\ gets = 0
    /\ rd = << >>
    /\ langInput = << >>
    /\ buf = << >>
    /\ sink = [dest |-> "", data |-> << >>]
    /\ writes = 0
    /\ LibIdle
    /\ EmitIdle

Next == GetInput \/ ParseInput \/ OpenOutput \/ OutputLookup

Spec == Init /\ [][Next]_vars

(***************************************************************************)
(* Claims about the generator, checked under Spec                          *)
(***************************************************************************)

\* outputLookup has filled its buffer with all three tables.
Emitted == pc = "done" \/ (pc = "fatal" /\ err \in {"format", "write"})

\* The elements a piece sequence holds for row number i in a table.
EntriesOf(chunks, table, i) ==
    SelectSeq(chunks, LAMBDA c : c.table = table /\ c.src = i)

\* The elements of a table.
TableOf(chunks, table) == SelectSeq(chunks, LAMBDA c : c.table = table)

\* C1: for a row whose Part2B and Part2T are both non-empty the Part 2 table
\* gets exactly two elements when the two differ, keyed by Part2B and by
\* Part2T and both holding the row (the same PrimaryCode and Name), and
\* exactly one, keyed by that code, when they are equal.
C1_Aliasing ==
    Emitted =>
        \A i \in 1..Len(langInput) :
            LET rec == langInput[i]
                es == EntriesOf(buf, "Part2", i)
            IN  (rec[2] # empty /\ rec[3] # empty) =>
                    IF rec[2] # rec[3]
                    THEN /\ Len(es) = 2
                         /\ es[1].key = rec[2]
                         /\ es[2].key = rec[3]
                         /\ es[1].record = rec
                         /\ es[2].record = rec
                         /\ ReadEntry(es[1].text).record = ReadEntry(es[2].text).record
                    ELSE /\ Len(es) = 1
                         /\ es[1].key = rec[2]
                         /\ es[1].record = rec

\* C1 witness: a module has been written for an input with a row whose two
\* secondary codes differ and a row whose two secondary codes are equal.
C1_Witness ==
    /\ pc = "done"
    /\ \E i, j \in 1..Len(langInput) :
         /\ langInput[i][2] = ger /\ langInput[i][3] = deu
         /\ langInput[j][2] = ger /\ langInput[j][3] = ger
         /\ Len(EntriesOf(sink.data, "Part2", i)) = 2
         /\ Len(EntriesOf(sink.data, "Part2", j)) = 1

\* C2: when every row has a PrimaryCode, no element of the written module
\* has the empty key: a row with an empty Part1 adds nothing to the Part 1
\* table, a row with an empty Part2B adds nothing to the Part 2 table, and a
\* row with a Part2B and an empty Part2T adds only the element keyed by Part2B.
C2_NoEmptyKey ==
    (pc = "done" /\ \A i \in 1..Len(langInput) : langInput[i][1] # empty) =>
        /\ \A n \in 1..Len(sink.data) :
               sink.data[n].table # "" => sink.data[n].key # empty
        /\ \A i \in 1..Len(langInput) :
               LET rec == langInput[i]
                   p2 == EntriesOf(sink.data, "Part2", i)
               IN  /\ rec[4] = empty => EntriesOf(sink.data, "Part1", i) = << >>
                   /\ rec[2] = empty => p2 = << >>
                   /\ (rec[2] # empty /\ rec[3] = empty) =>
                          Len(p2) = 1 /\ p2[1].key = rec[2]

\* C3: the Part 3 table has exactly one element for each row, keyed by the
\* row's PrimaryCode, so as many elements as there are rows; the Part 1 table
\* has at most one element for a row and the Part 2 table at most two.
C3_OnePerRecord ==
    Emitted =>
        /\ Len(TableOf(buf, "Part3")) = Len(langInput)
        /\ \A i \in 1..Len(langInput) :
               LET es == EntriesOf(buf, "Part3", i)
               IN  /\ Len(es) = 1
                   /\ es[1].key = langInput[i][1]
                   /\ es[1].record = langInput[i]
                   /\ Len(EntriesOf(buf, "Part1", i)) <= 1
                   /\ Len(EntriesOf(buf, "Part2", i)) <= 2

\* C3 witness: a module has been written for two rows, one of them with an
\* empty PrimaryCode and one with two Part 2 elements and a Part 1 element.
C3_Witness ==
    /\ pc = "done"
    /\ Len(langInput) = 2
    /\ Len(TableOf(sink.data, "Part3")) = 2
    /\ \E i, j \in 1..2 :
         /\ langInput[i][1] = empty
         /\ Len(EntriesOf(sink.data, "Part2", j)) = 2
         /\ Len(EntriesOf(sink.data, "Part1", j)) = 1

\* A data row, a row after the header, has a field count other than 8.
HasBadRow == \E i \in 2..Len(content) : Len(content[i]) # 8

\* The constant texts of a complete module, in their order.
ModuleTexts ==
    << <<"sourceFilePrefix">>, <<"part3Prefix">>, <<"lookupSuffix">>,
       <<"part2Prefix">>, <<"lookupSuffix">>, <<"part1Prefix">>, <<"lookupSuffix">> >>

\* The pieces are a complete module for the rows: the three tables opened and
\* closed in order, and every row in the Part 3 table.
IsModule(chunks, rows) ==
    LET fixed == SelectSeq(chunks, LAMBDA c : c.table = "")
    IN  /\ Len(fixed) = Len(ModuleTexts)
        /\ \A n \in 1..Len(fixed) : fixed[n].text = ModuleTexts[n]
        /\ chunks[Len(chunks)].text = <<"lookupSuffix">>
        /\ \A i \in 1..Len(rows) : Len(EntriesOf(chunks, "Part3", i)) = 1

\* A run with a bad data row does not end otherwise than in log.Fatalf, and
\* no row is dropped on the way to outputLookup.
BadRowIsFatal ==
    /\ HasBadRow => pc \notin {"done", "panic"}
    /\ (HasBadRow /\ ~ENABLED Next) => pc = "fatal"
    /\ pc \in {"parsed", "opened", "done"} => langInput = Tail(content)

C6_FetchFailureIsFatal ==
    uri = "url" =>
        /\ gets = 1
        /\ resp \in {"neterr", "timeout", "404", "500"} =>
               /\ pc = "fatal"
               /\ err \in {"get", "body"}
               /\ sink.data = << >>
               /\ writes = 0
        /\ (pc \in {"loaded", "parsed", "opened", "done", "panic"}
              \/ err \in {"csv", "create", "struct", "format", "write"}) =>
               resp = "200"

(***************************************************************************)
(* Claims about the emitter, checked under SpecEmit                        *)
(***************************************************************************)

\* C4: the element outputStruct writes for a row of 8 fields, read back, is
\* Go source and stands for a record equal to the row field for field (an
\* empty field is left out and reads back as empty), whatever characters the
\* values hold.
C4_RoundTrip ==
    epc = "reread" => structRead.ok /\ structRead.record = structRecord

(***************************************************************************)
(* Claims about the library, checked under SpecLookup                      *)
(***************************************************************************)

\* The pointer the last call returned points to a record equal to e.
Returned(e) == ret # Nil /\ Deref(ret) = e

\* C7: FromAnyCode answers a code of length 3 with the Part 3 table's record
\* when that table has the code, otherwise with the Part 2 table's record when
\* that table has it, otherwise with nil; a code of length 2 with what the
\* Part 1 table holds, or nil; a code of any other length with nil, whatever
\* the tables hold.
C7_FromAnyCode ==
    call.op = "FromAnyCode" =>
        LET code == call.arg
        IN  CASE Len(code) = 3 ->
                   IF code \in DOMAIN LanguagesPart3
                   THEN Returned(LanguagesPart3[code])
                   ELSE IF code \in DOMAIN LanguagesPart2
                        THEN Returned(LanguagesPart2[code])
                        ELSE ret = Nil
              [] Len(code) = 2 ->
                   IF code \in DOMAIN LanguagesPart1
                   THEN Returned(LanguagesPart1[code])
                   ELSE ret = Nil
              [] OTHER -> ret = Nil

\* C7 witness: a code of length 3 that both tables hold, with different
\* records, has been asked for and answered.
C7_Witness ==
    /\ call.op = "FromAnyCode"
    /\ Len(call.arg) = 3
    /\ call.arg \in DOMAIN LanguagesPart3 \cap DOMAIN LanguagesPart2
    /\ LanguagesPart3[call.arg] # LanguagesPart2[call.arg]
    /\ ret # Nil

\* C8: FromPart3Code, FromPart2Code and FromPart1Code each return a record
\* equal to the entry their own table holds under the key, and nil when the
\* table holds none.
C8_KeyedLookup ==
    /\ call.op = "FromPart3Code" =>
         IF call.arg \in DOMAIN LanguagesPart3
         THEN Returned(LanguagesPart3[call.arg]) ELSE ret = Nil
    /\ call.op = "FromPart2Code" =>
         IF call.arg \in DOMAIN LanguagesPart2
         THEN Returned(LanguagesPart2[call.arg]) ELSE ret = Nil
    /\ call.op = "FromPart1Code" =>
         IF call.arg \in DOMAIN LanguagesPart1
         THEN Returned(LanguagesPart1[call.arg]) ELSE ret = Nil

\* C8 witness: FromPart3Code has missed on a key that another table holds.
C8_Witness ==
    /\ call.op = "FromPart3Code"
    /\ call.arg \notin DOMAIN LanguagesPart3
    /\ call.arg \in DOMAIN LanguagesPart2
    /\ ret = Nil

\* C9: FromName returns nil exactly when no entry of the Part 3 table has the
\* name (compared exactly), and otherwise a record that is one of the Part 3
\* entries with that name; the other two tables play no part.
C9_FromName ==
    call.op = "FromName" =>
        LET hits == { k \in DOMAIN LanguagesPart3 :
                        LanguagesPart3[k].Name = call.arg }
        IN  /\ ret = Nil <=> hits = {}
            /\ ret # Nil => \E k \in hits : Deref(ret) = LanguagesPart3[k]

\* C9 witness: a name that two entries of the Part 3 table share has been
\* asked for and answered.
C9_Witness ==
    /\ call.op = "FromName"
    /\ ret # Nil
    /\ \E j, k \in DOMAIN LanguagesPart3 :
         /\ j # k
         /\ LanguagesPart3[j] # LanguagesPart3[k]
         /\ LanguagesPart3[j].Name = call.arg
         /\ LanguagesPart3[k].Name = call.arg

\* C10: no step, a lookup or a write by the caller to a returned record,
\* changes any of the three tables.
C10_TablesReadOnly ==
    [][UNCHANGED <<LanguagesPart3, LanguagesPart2, LanguagesPart1>>]_vars

\* C10 witness: the caller has changed the record a Part 3 lookup returned,
\* which now differs from the table's entry.
C10_Witness ==
    /\ call.op = "Modify"
    /\ ret # Nil
    /\ Deref(ret).Name = "Changed"
    /\ \E k \in DOMAIN LanguagesPart3 :
         [Deref(ret) EXCEPT !.Name = LanguagesPart3[k].Name] = LanguagesPart3[k]

====
